---------------------------- MODULE Spec2Model ----------------------------
(***************************************************************************)
(* Model of ServerApi (ext/sdk/resources/sdk-root/sdk/src/api/ServerApi.ts) *)
(* the supervisor of the FXServer process: lifecycle state, resource links, *)
(* and the line-delimited JSON IPC channel to the sdk-game resource.        *)
(*                                                                          *)
(* Node runs the class on one thread: a handler runs to its next `await`    *)
(* without interruption, so every action below is one such run.             *)
(* JavaScript strings are tuples of one-character strings, so that          *)
(* startsWith and path.basename are computed character by character.        *)
(***************************************************************************)
EXTENDS Integers, Sequences, FiniteSets, TLC

\* Bounds of the model: how many server processes start() may launch and how
\* many peer connections the IPC servers may accept in one behaviour.
MaxProcs == 2
MaxConns == 2

NoProc == 0
NoSocket == 0

--------------------------------------------------------------------------
\* JavaScript values that cross the IPC channel or the client bus.

Undef == [t |-> "undef", s |-> <<>>, a |-> <<>>]
JsNull == [t |-> "null", s |-> <<>>, a |-> <<>>]
JsObj == [t |-> "obj", s |-> <<>>, a |-> <<>>]
JsNum == [t |-> "num", s |-> <<>>, a |-> <<>>]
JsStr(chars) == [t |-> "str", s |-> chars, a |-> <<>>]
JsArr(elems) == [t |-> "arr", s |-> <<>>, a |-> elems]

\* String literals of the source.
S_refresh == <<"r","e","f","r","e","s","h">>
S_restart == <<"r","e","s","t","a","r","t">>
S_stop == <<"s","t","o","p">>
S_start == <<"s","t","a","r","t">>
S_state == <<"s","t","a","t","e">>
S_ready == <<"r","e","a","d","y">>
S_sdkGame == <<"s","d","k","-","g","a","m","e">>

\* paths.sdkGame: the source directory of the bridge resource.
sdkGamePath == <<"/","s","/","g">>

\* Resource directories of the project and the resource lists a request may carry.
PA == <<"/","p","/","a">>
PB == <<"/","p","/","b">>
QA == <<"/","q","/","a">>
ResourceLists == { <<PA, PB>>, <<PA, QA>> }

\* restartResourcesWithPath of a relink request; <<>> is the absent (falsy) one.
Prefixes == { <<>>, <<"/","p">>, <<"/","p","/","a">> }

\* Resource names the control surface sends.
ResourceNames == { <<"a">> }

--------------------------------------------------------------------------
\* String helpers.

startsWith(str, prefix) ==
    /\ Len(prefix) <= Len(str)
    /\ SubSeq(str, 1, Len(prefix)) = prefix

RECURSIVE StripTrailingSlashes(_)
StripTrailingSlashes(p) ==
    IF Len(p) > 1 /\ p[Len(p)] = "/"
    THEN StripTrailingSlashes(SubSeq(p, 1, Len(p) - 1))
    ELSE p

\* path.basename: the part after the last separator, trailing separators ignored.
basename(p) ==
    LET q == StripTrailingSlashes(p)
        slashes == { i \in 1..Len(q) : q[i] = "/" }
        last == IF slashes = {} THEN 0
                ELSE CHOOSE i \in slashes : \A j \in slashes : j <= i
    IN SubSeq(q, last + 1, Len(q))

RECURSIVE SeqFilter(_, _)
SeqFilter(seq, prefix) ==
    IF seq = <<>> THEN <<>>
    ELSE (IF startsWith(Head(seq), prefix) THEN <<Head(seq)>> ELSE <<>>)
         \o SeqFilter(Tail(seq), prefix)

SeqMapBasename(seq) == [i \in 1..Len(seq) |-> basename(seq[i])]

--------------------------------------------------------------------------
\* The wire format: a line is a sequence of JSON tokens, "\n" ends it.

Tok(k, s) == [k |-> k, s |-> s]
LBracket == Tok("[", <<>>)
RBracket == Tok("]", <<>>)
Comma == Tok(",", <<>>)
LBrace == Tok("{", <<>>)
RBrace == Tok("}", <<>>)
NullTok == Tok("null", <<>>)
NumTok == Tok("num", <<>>)
StrTok(chars) == Tok("str", chars)
\* An unterminated string literal, as in the line {"bad json
JunkTok == Tok("junk", <<>>)
Newline == Tok("\n", <<>>)

IsScalarTok(tk) == tk.k \in {"str", "null", "num"}

ScalarOf(tk) ==
    CASE tk.k = "str" -> JsStr(tk.s)
      [] tk.k = "null" -> JsNull
      [] OTHER -> JsNum

\* JSON.stringify of an element of an array: undefined is written as null.
ElemTok(v) == IF v.t = "str" THEN StrTok(v.s) ELSE NullTok

RECURSIVE JoinElems(_)
JoinElems(elems) ==
    IF elems = <<>> THEN <<>>
    ELSE IF Len(elems) = 1 THEN <<ElemTok(elems[1])>>
    ELSE <<ElemTok(elems[1]), Comma>> \o JoinElems(Tail(elems))

\* JSON.stringify([eventType, data])
JSONstringify(arr) == <<LBracket>> \o JoinElems(arr.a) \o <<RBracket>>

\* The elements between the brackets: scalar (, scalar)*, or nothing.
RECURSIVE ParseElems(_)
ParseElems(toks) ==
    IF toks = <<>> THEN [ok |-> FALSE, a |-> <<>>]
    ELSE IF ~IsScalarTok(toks[1]) THEN [ok |-> FALSE, a |-> <<>>]
    ELSE IF Len(toks) = 1 THEN [ok |-> TRUE, a |-> <<ScalarOf(toks[1])>>]
    ELSE IF toks[2] # Comma THEN [ok |-> FALSE, a |-> <<>>]
    ELSE LET rest == ParseElems(SubSeq(toks, 3, Len(toks)))
         IN [ok |-> rest.ok, a |-> <<ScalarOf(toks[1])>> \o rest.a]

\* JSON.parse of one line: ok = FALSE is the SyntaxError it throws.
JSONparse(toks) ==
    IF Len(toks) = 1 /\ IsScalarTok(toks[1])
        THEN [ok |-> TRUE, val |-> ScalarOf(toks[1])]
    ELSE IF toks = <<LBrace, RBrace>>
        THEN [ok |-> TRUE, val |-> JsObj]
    ELSE IF toks = <<LBracket, RBracket>>
        THEN [ok |-> TRUE, val |-> JsArr(<<>>)]
    ELSE IF Len(toks) >= 3 /\ toks[1] = LBracket /\ toks[Len(toks)] = RBracket
        THEN LET inner == ParseElems(SubSeq(toks, 2, Len(toks) - 1))
             IN [ok |-> inner.ok, val |-> JsArr(inner.a)]
    ELSE [ok |-> FALSE, val |-> Undef]

\* const [type, data] = value: ok = FALSE is the TypeError of a value that is
\* not iterable; a string destructures into its characters.
Destructure(v) ==
    CASE v.t = "arr" ->
            [ok |-> TRUE,
             type |-> IF Len(v.a) >= 1 THEN v.a[1] ELSE Undef,
             data |-> IF Len(v.a) >= 2 THEN v.a[2] ELSE Undef]
      [] v.t = "str" ->
            [ok |-> TRUE,
             type |-> IF Len(v.s) >= 1 THEN JsStr(<<v.s[1]>>) ELSE Undef,
             data |-> IF Len(v.s) >= 2 THEN JsStr(<<v.s[2]>>) ELSE Undef]
      [] OTHER -> [ok |-> FALSE, type |-> Undef, data |-> Undef]

\* Lines the peer may write.
LineReady == <<LBracket, StrTok(S_ready), Comma, NullTok, RBracket>>
LineState == <<LBracket, StrTok(S_state), Comma, StrTok(<<"x">>), RBracket>>
LineOther == <<LBracket, StrTok(<<"x">>), Comma, NullTok, RBracket>>
LineBadJson == <<LBrace, JunkTok>>
LineObject == <<LBrace, RBrace>>
LineNumber == <<NumTok>>
LineReady1 == <<LBracket, StrTok(S_ready), RBracket>>
LineState3 == <<LBracket, StrTok(S_state), Comma, NullTok, Comma, NullTok, RBracket>>
Lines == { LineReady, LineState, LineOther, LineBadJson, LineObject,
           LineNumber, LineReady1, LineState3 }

\* The wire format of section 6: a JSON array of exactly two elements.
WellFormed(line) ==
    LET p == JSONparse(line)
    IN p.ok /\ p.val.t = "arr" /\ Len(p.val.a) = 2

--------------------------------------------------------------------------
\* The state of one ServerApi instance and of the world it drives.

VARIABLES
    state,          \* this.state: "down", "booting" or "up"
    server,         \* this.server: the tracked process, or NoProc
    ipcServer,      \* this.ipcServer: the net.Server of the latest setupIpc, or 0
    ipcSocket,      \* this.ipcSocket: the latest accepted connection, or NoSocket
    currentEnabledResourcesPaths,
    proc,           \* the processes execFile has launched: their real status
    ipc,            \* per setupIpc call: the server's status and its disposableHandlers
    conn,           \* the connections accepted so far
    links,          \* the links in <cwd>/resources: pairs <<name, source>>
    startCall,      \* the start() call suspended at its awaits, if any
    supervisor,     \* "running", or "exited" once the supervisor's process ends
    lastOp,         \* the handler that ran last, with its arguments
    emitted,        \* client.emit calls of the last handler, in order
    sendCalls,      \* sendIpcEvent calls of the last handler, in order
    written,        \* socket writes of the last handler, in order
    fired,          \* owners of the per-connection handlers the last handler ran
    raised,         \* what made the last handler throw or reject, or "no"
    wired           \* the processes whose stdout and 'exit' listeners are registered

vars == <<state, server, ipcServer, ipcSocket, currentEnabledResourcesPaths,
          proc, ipc, conn, links, startCall, supervisor, lastOp, emitted,
          sendCalls, written, fired, raised, wired>>

Procs == 1..MaxProcs
Conns == 1..MaxConns

\* launch is what start's execFile gave ("none" when it was not reached);
\* failed is the 'Failed to link resource' lines the handler logged.
Op(name) == [op |-> name, line |-> <<>>, prefix |-> <<>>, paths |-> <<>>, data |-> Undef,
             launch |-> "none", failed |-> {}]

StateEvent(st) == [ev |-> "state", st |-> st, data |-> Undef]
ClearOutputEvent == [ev |-> "clearOutput", st |-> "", data |-> Undef]
ResourcesStateEvent(data) == [ev |-> "resourcesState", st |-> "", data |-> data]

Call(eventType, data) == [type |-> eventType, data |-> data]

\* sendIpcEvent without its null guard: this.ipcSocket.write dereferences null.
sendIpcEventNoGuard(sock, eventType, data) ==
    IF sock = NoSocket
    THEN [w |-> <<>>, threw |-> TRUE]
    ELSE [w |-> << [to |-> sock,
                    msg |-> JSONstringify(JsArr(<<JsStr(eventType), data>>))
                            \o <<Newline>>] >>,
          threw |-> FALSE]

\* sendIpcEvent: what it writes, and whether it throws.
sendIpcEvent(sock, eventType, data) ==
    IF sock = NoSocket
    THEN [w |-> <<>>, threw |-> FALSE]
    ELSE [w |-> << [to |-> sock,
                    msg |-> JSONstringify(JsArr(<<JsStr(eventType), data>>))
                            \o <<Newline>>] >>,
          threw |-> FALSE]

\* A handler's sendIpcEvent calls one after the other; the first throw ends it.
RECURSIVE SendAll(_, _)
SendAll(sock, calls) ==
    IF calls = <<>> THEN [w |-> <<>>, threw |-> FALSE]
    ELSE LET one == sendIpcEvent(sock, Head(calls).type, Head(calls).data)
         IN IF one.threw THEN one
            ELSE LET rest == SendAll(sock, Tail(calls))
                 IN [w |-> one.w \o rest.w, threw |-> rest.threw]

--------------------------------------------------------------------------
\* linkResources

\* The orders in which n concurrent symlink calls may complete.
Orders(n) == { f \in [1..n -> 1..n] : \A i, j \in 1..n : f[i] = f[j] => i = j }

\* links.map(...) with the bridge link put first by unshift.
DesiredLinks(resourcesPaths) ==
    << [source |-> sdkGamePath, dest |-> S_sdkGame] >>
    \o [i \in 1..Len(resourcesPaths) |->
            [source |-> resourcesPaths[i], dest |-> basename(resourcesPaths[i])]]

\* The symlink calls made as one chain that the first failure ends: the links
\* due after it are not created.
RECURSIVE SymlinksAbort(_, _, _, _, _)
SymlinksAbort(made, desired, fails, order, k) ==
    IF k > Len(desired) THEN made
    ELSE LET i == order[k]
             l == desired[i]
             exists == \E m \in made : m[1] = l.dest
         IN IF i \in fails \/ exists THEN made
            ELSE SymlinksAbort(made \cup { <<l.dest, l.source>> },
                               desired, fails, order, k + 1)

\* fs.promises.symlink of the k-th, ..., last link to complete: one fails when
\* the file system refuses it (fails) or when its destination exists already.
RECURSIVE Symlinks(_, _, _, _, _)
Symlinks(made, desired, fails, order, k) ==
    IF k > Len(desired) THEN made
    ELSE LET i == order[k]
             l == desired[i]
             exists == \E m \in made : m[1] = l.dest
         IN Symlinks(IF i \in fails \/ exists THEN made
                     ELSE made \cup { <<l.dest, l.source>> },
                     desired, fails, order, k + 1)

\* The catch blocks of that run: one logged line per link that failed, with
\* the index of the link and the error, EEXIST when the destination exists
\* already and the file system's own error (EPERM, ENOENT, ...) otherwise.
RECURSIVE SymlinkErrors(_, _, _, _, _)
SymlinkErrors(made, desired, fails, order, k) ==
    IF k > Len(desired) THEN {}
    ELSE LET i == order[k]
             l == desired[i]
             exists == \E m \in made : m[1] = l.dest
         IN IF i \in fails
            THEN { [link |-> i, error |-> "refused"] }
                 \cup SymlinkErrors(made, desired, fails, order, k + 1)
            ELSE IF exists
            THEN { [link |-> i, error |-> "EEXIST"] }
                 \cup SymlinkErrors(made, desired, fails, order, k + 1)
            ELSE SymlinkErrors(made \cup { <<l.dest, l.source>> },
                               desired, fails, order, k + 1)

\* What a handler that links and then sends ends with.
Thrown(lr, sent) == IF lr.threw THEN "link" ELSE IF sent.threw THEN "send" ELSE "no"

\* linkResources: dirFail is the step that throws, "rimraf" or "mkdirp", or
\* "none". Its result: the links left, whether it threw, what it sends, and
\* the link failures it logged.
linkResources(old, resourcesPaths, dirFail, fails, order) ==
    IF dirFail = "rimraf"
    THEN [links |-> old, threw |-> TRUE, calls |-> <<>>, failed |-> {}]
    ELSE IF dirFail = "mkdirp"
    THEN [links |-> {}, threw |-> TRUE, calls |-> <<>>, failed |-> {}]
    ELSE [links |-> Symlinks({}, DesiredLinks(resourcesPaths), fails, order, 1),
          threw |-> FALSE,
          calls |-> << Call(S_refresh, Undef) >>,
          failed |-> SymlinkErrors({}, DesiredLinks(resourcesPaths), fails, order, 1)]

DirFails == {"none", "rimraf", "mkdirp"}

InOrder(n) == [i \in 1..n |-> i]

\* What linkResources may leave when no directory step fails: one result for
\* each set of links the file system refuses and each order in which the
\* concurrent symlink calls end.
SymlinkResults ==
    [r \in ResourceLists |->
        { linkResources({}, r, "none", f, o) :
            f \in SUBSET (1..(Len(r) + 1)), o \in Orders(Len(r) + 1) }]

\* Every result of linkResources(resourcesPaths) over the links old.
LinkResults(old, resourcesPaths) ==
    SymlinkResults[resourcesPaths]
    \cup { linkResources(old, resourcesPaths, d, {}, InOrder(Len(resourcesPaths) + 1)) :
             d \in DirFails \ {"none"} }

\* The same with every symlink accepted, in the order of the calls.
PlainLinkResults(old, resourcesPaths) ==
    { linkResources(old, resourcesPaths, d, {}, InOrder(Len(resourcesPaths) + 1)) :
        d \in DirFails }

--------------------------------------------------------------------------
\* Handlers.

Quiet ==
    /\ emitted' = <<>>
    /\ sendCalls' = <<>>
    /\ written' = <<>>
    /\ fired' = <<>>
    /\ raised' = "no"

\* The first process slot, connection slot not in use yet.
FreeProcs == { p \in Procs : proc[p] = "none" }
FreeConns == { c \in Conns : conn[c].srv = 0 }
Lowest(S) == CHOOSE x \in S : \A y \in S : x <= y

\* ChildProcess.kill('SIGKILL'): a process that has ended is left as it is.
kill(procs, p) ==
    IF p # NoProc /\ procs[p] = "running" THEN [procs EXCEPT ![p] = "killed"] ELSE procs

\* ackState: what it emits when this.state is st.
ackState(st) == << StateEvent(st) >>

\* toState without its call of ackState.
toStateSilent(newState) == [state |-> newState, emitted |-> <<>>]

\* toState: the new state, and the broadcast of it.
toState(newState) == [state |-> newState, emitted |-> ackState(newState)]

\* The control surface asks for the state: ackState
AckState ==
    /\ supervisor = "running"
    /\ lastOp' = Op("ackState")
    /\ emitted' = ackState(state)
    /\ sendCalls' = <<>> /\ written' = <<>> /\ fired' = <<>> /\ raised' = "no"
    /\ UNCHANGED <<wired, state, server, ipcServer, ipcSocket, currentEnabledResourcesPaths,
                   proc, ipc, conn, links, startCall, supervisor>>

\* stop without its check of this.server: null.kill is a TypeError.
stopNoGuard(procs, p) == [proc |-> kill(procs, p), threw |-> p = NoProc]

\* stop: the processes after it, and whether it threw.
stop(procs, p) ==
    IF p # NoProc THEN [proc |-> kill(procs, p), threw |-> FALSE]
    ELSE [proc |-> procs, threw |-> FALSE]

\* The control surface asks to stop the server: stop
Stop ==
    /\ supervisor = "running"
    /\ lastOp' = Op("stop")
    /\ proc' = stop(proc, server).proc
    /\ raised' = (IF stop(proc, server).threw THEN "stop" ELSE "no")
    /\ emitted' = <<>> /\ sendCalls' = <<>> /\ written' = <<>> /\ fired' = <<>>
    /\ UNCHANGED <<wired, state, server, ipcServer, ipcSocket, currentEnabledResourcesPaths,
                   ipc, conn, links, startCall, supervisor>>

\* start, up to its first await: clearOutput, toState(booting), mkdirp issued.
StartBegin(enabledResourcesPaths) ==
    /\ supervisor = "running"
    /\ startCall.pc = "idle"
    /\ FreeProcs # {}
    /\ lastOp' = [Op("start") EXCEPT !.paths = enabledResourcesPaths]
    /\ state' = toState("booting").state
    /\ emitted' = << ClearOutputEvent >> \o toState("booting").emitted
    /\ startCall' = [pc |-> "linking", req |-> enabledResourcesPaths]
    /\ sendCalls' = <<>> /\ written' = <<>> /\ fired' = <<>> /\ raised' = "no"
    /\ UNCHANGED <<wired, server, ipcServer, ipcSocket, currentEnabledResourcesPaths,
                   proc, ipc, conn, links, supervisor>>


\* Whether the pipe sdkGamePipeName is held by a server that is listening.
PipeInUse == \E s \in Procs : ipc[s].status = "listening"

\* start's check of what execFile returned, without the check.
launchFailedUnchecked(spawned) == FALSE

\* start's check of what execFile returned: no handle, or one without stdout.
launchFailed(spawned) == ~spawned

\* start, from the completion of mkdirp and linkResources, whose outcome is lr,
\* to its end. A failed mkdirp(fxserverCwd) leaves what a failed rimraf leaves:
\* nothing done, start rejects. Past execFile the only await is on setupIpc's
\* settled promise, and start resumes from it in the same run of promise jobs,
\* so it wires the listeners and records the handle before anything else runs.
\* listen() on a pipe that an earlier server still holds fails; net.Server
\* reports it with process.nextTick as an 'error' event, which runs once the
\* promise jobs are done and has no listener: the uncaught exception ends the
\* supervisor, whose exit hook kills the process just recorded.
StartComplete(lr, spawned) ==
    /\ supervisor = "running"
    /\ startCall.pc = "linking"
    /\ startCall' = [pc |-> "idle", req |-> <<>>]
    /\ LET sent == SendAll(ipcSocket, lr.calls)
           p == Lowest(FreeProcs)
           reached == ~(lr.threw \/ sent.threw)
       IN /\ lastOp' = [Op("startComplete") EXCEPT
                            !.paths = startCall.req,
                            !.failed = lr.failed,
                            !.launch = IF ~reached THEN "none"
                                       ELSE IF spawned THEN "ok" ELSE "failed"]
          /\ links' = lr.links
          /\ sendCalls' = lr.calls
          /\ written' = sent.w
          /\ emitted' = <<>>
          /\ fired' = <<>>
          /\ UNCHANGED <<state, ipcSocket, conn>>
          /\ IF ~reached
             THEN /\ raised' = Thrown(lr, sent)
                  /\ UNCHANGED <<server, ipcServer, currentEnabledResourcesPaths,
                                 proc, ipc, supervisor, wired>>
             ELSE IF launchFailed(spawned)
             THEN /\ raised' = "no"
                  /\ UNCHANGED <<server, ipcServer, currentEnabledResourcesPaths,
                                 proc, ipc, supervisor, wired>>
             ELSE IF PipeInUse
             THEN /\ raised' = "listen"
                  /\ ipcServer' = p
                  /\ ipc' = [ipc EXCEPT ![p].status = "failed"]
                  /\ wired' = wired \cup {p}
                  /\ server' = p
                  /\ currentEnabledResourcesPaths' = startCall.req
                  /\ supervisor' = "exited"
                  /\ proc' = kill([proc EXCEPT ![p] = "running"], p)
             ELSE /\ raised' = "no"
                  /\ ipcServer' = p
                  /\ ipc' = [ipc EXCEPT ![p].status = "listening"]
                  /\ wired' = wired \cup {p}
                  /\ proc' = [proc EXCEPT ![p] = "running"]
                  /\ server' = p
                  /\ currentEnabledResourcesPaths' = startCall.req
                  /\ UNCHANGED supervisor

\* net.Server.close(): stop listening; 'close' follows once its connections end.
closeServer(servers, s) ==
    IF s # 0 /\ servers[s].status = "listening"
    THEN [servers EXCEPT ![s].status = "closing"]
    ELSE servers

\* The process p ends; its 'exit' listener runs if the supervisor still does.
ProcessExit(p) ==
    /\ proc[p] \in {"running", "killed"}
    /\ proc' = [proc EXCEPT ![p] = "exited"]
    /\ IF supervisor = "running" /\ p \in wired
       THEN /\ lastOp' = Op("exit")
            /\ ipc' = closeServer(ipc, ipcServer)
            /\ server' = NoProc
            /\ state' = toState("down").state
            /\ emitted' = toState("down").emitted
            /\ sendCalls' = <<>> /\ written' = <<>> /\ fired' = <<>> /\ raised' = "no"
       ELSE UNCHANGED <<lastOp, ipc, server, state, emitted, sendCalls, written,
                        fired, raised>>
    /\ UNCHANGED <<wired, ipcServer, ipcSocket, currentEnabledResourcesPaths, conn, links,
                   startCall, supervisor>>

\* The supervisor's own process ends: process.on('exit')
SupervisorExit ==
    /\ supervisor = "running"
    /\ supervisor' = "exited"
    /\ lastOp' = Op("processExit")
    /\ proc' = kill(proc, server)
    /\ Quiet
    /\ UNCHANGED <<wired, state, server, ipcServer, ipcSocket, currentEnabledResourcesPaths,
                   ipc, conn, links, startCall>>

\* refreshResources
RefreshResources(enabledResourcesPaths, lr) ==
    /\ supervisor = "running"
    /\ lastOp' = [Op("refreshResources") EXCEPT !.paths = enabledResourcesPaths,
                                                !.failed = lr.failed]
    /\ LET calls == IF lr.threw THEN <<>> ELSE lr.calls \o << Call(S_refresh, Undef) >>
           sent == SendAll(ipcSocket, calls)
       IN /\ links' = lr.links
          /\ sendCalls' = calls
          /\ written' = sent.w
          /\ raised' = Thrown(lr, sent)
    /\ emitted' = <<>> /\ fired' = <<>>
    /\ UNCHANGED <<wired, state, server, ipcServer, ipcSocket, currentEnabledResourcesPaths,
                   proc, ipc, conn, startCall, supervisor>>

\* The same without the filter on the prefix.
resourcesToRestartAll(enabled, restartResourcesWithPath) ==
    IF restartResourcesWithPath # <<>> THEN SeqMapBasename(enabled) ELSE <<>>

\* The restart directives of a relink request.
resourcesToRestart(enabled, restartResourcesWithPath) ==
    IF restartResourcesWithPath # <<>>
    THEN SeqMapBasename(SeqFilter(enabled, restartResourcesWithPath))
    ELSE <<>>

RestartCalls(names) == [i \in 1..Len(names) |-> Call(S_restart, JsStr(names[i]))]

\* handleRelinkResources without its first check.
RelinkAlways == TRUE

\* Whether handleRelinkResources goes past its first check.
RelinkProceeds == state = "up"

\* handleRelinkResources
HandleRelinkResources(resourcesPaths, restartResourcesWithPath, lr) ==
    /\ supervisor = "running"
    /\ lastOp' = [Op("relinkResources") EXCEPT
                      !.paths = resourcesPaths,
                      !.prefix = restartResourcesWithPath,
                      !.failed = IF RelinkProceeds THEN lr.failed ELSE {}]
    /\ IF ~RelinkProceeds
       THEN /\ sendCalls' = <<>> /\ written' = <<>> /\ raised' = "no"
            /\ UNCHANGED links
       ELSE LET toRestart == resourcesToRestart(currentEnabledResourcesPaths,
                                                restartResourcesWithPath)
                calls == IF lr.threw THEN <<>> ELSE lr.calls \o RestartCalls(toRestart)
                sent == SendAll(ipcSocket, calls)
            IN /\ links' = lr.links
               /\ sendCalls' = calls
               /\ written' = sent.w
               /\ raised' = Thrown(lr, sent)
    /\ emitted' = <<>> /\ fired' = <<>>
    /\ UNCHANGED <<wired, state, server, ipcServer, ipcSocket, currentEnabledResourcesPaths,
                   proc, ipc, conn, startCall, supervisor>>


--------------------------------------------------------------------------
\* The IPC channel.

InSeq(x, seq) == \E i \in 1..Len(seq) : seq[i] = x

\* The connections whose four control-surface handlers are registered on the
\* client: those still held in the disposableHandlers of some setupIpc call.
HasHandlers(c) == \E s \in Procs : InSeq(c, ipc[s].disposable)

\* They run in the order they were registered, which is the order of accepting.
RECURSIVE Ascending(_)
Ascending(S) ==
    IF S = {} THEN <<>> ELSE <<Lowest(S)>> \o Ascending(S \ {Lowest(S)})

RegisteredHandlers == Ascending({ c \in Conns : HasHandlers(c) })

ClientEvents == {"ackResourcesState", "restartResource", "stopResource", "startResource"}

\* What one per-connection handler sends for a control-surface event.
ForwardedCall(ev, resourceName) ==
    CASE ev = "ackResourcesState" -> Call(S_state, Undef)
      [] ev = "restartResource" -> Call(S_restart, JsStr(resourceName))
      [] ev = "stopResource" -> Call(S_stop, JsStr(resourceName))
      [] OTHER -> Call(S_start, JsStr(resourceName))

\* The listeners the constructor put on the client for the event, which run
\* before the per-connection ones: handleResourceRestart for restartResource.
ConstructorCalls(ev, resourceName) ==
    IF ev = "restartResource" THEN << Call(S_restart, JsStr(resourceName)) >> ELSE <<>>

\* The control surface emits ev: every listener registered for it runs.
ClientEvent(ev, resourceName) ==
    /\ supervisor = "running"
    /\ lastOp' = [Op(ev) EXCEPT !.data = JsStr(resourceName)]
    /\ LET owners == RegisteredHandlers
           calls == ConstructorCalls(ev, resourceName)
                    \o [i \in 1..Len(owners) |-> ForwardedCall(ev, resourceName)]
           sent == SendAll(ipcSocket, calls)
       IN /\ fired' = owners
          /\ sendCalls' = calls
          /\ written' = sent.w
          /\ raised' = (IF sent.threw THEN "send" ELSE "no")
    /\ emitted' = <<>>
    /\ UNCHANGED <<wired, state, server, ipcServer, ipcSocket, currentEnabledResourcesPaths,
                   proc, ipc, conn, links, startCall, supervisor>>

\* systemEvents restartResource: handleResourceRestart
HandleResourceRestart(resourceName) ==
    /\ supervisor = "running"
    /\ lastOp' = [Op("systemRestartResource") EXCEPT !.data = JsStr(resourceName)]
    /\ LET calls == << Call(S_restart, JsStr(resourceName)) >>
           sent == SendAll(ipcSocket, calls)
       IN /\ sendCalls' = calls
          /\ written' = sent.w
          /\ raised' = (IF sent.threw THEN "send" ELSE "no")
    /\ emitted' = <<>> /\ fired' = <<>>
    /\ UNCHANGED <<wired, state, server, ipcServer, ipcSocket, currentEnabledResourcesPaths,
                   proc, ipc, conn, links, startCall, supervisor>>

\* ipcServer.on('connection'): the server s accepts a peer.
Connection(s) ==
    /\ supervisor = "running"
    /\ ipc[s].status = "listening"
    /\ FreeConns # {}
    /\ LET c == Lowest(FreeConns)
       IN /\ ipcSocket' = c
          /\ ipc' = [ipc EXCEPT ![s].disposable = Append(@, c)]
          /\ conn' = [conn EXCEPT ![c] = [srv |-> s, open |-> TRUE]]
    /\ lastOp' = Op("connection")
    /\ Quiet
    /\ UNCHANGED <<wired, state, server, ipcServer, currentEnabledResourcesPaths, proc,
                   links, startCall, supervisor>>

\* The peer of connection c closes it. No listener is registered on the socket.
PeerClose(c) ==
    /\ conn[c].srv # 0
    /\ conn[c].open
    /\ conn' = [conn EXCEPT ![c].open = FALSE]
    /\ lastOp' = Op("peerClose")
    /\ Quiet
    /\ UNCHANGED <<wired, state, server, ipcServer, ipcSocket, currentEnabledResourcesPaths,
                   proc, ipc, links, startCall, supervisor>>

\* The lineStream 'data' listener on one line: what it does with it.
HandleLine(msg) ==
    LET parsed == JSONparse(msg)
        d == Destructure(parsed.val)
    IN IF ~parsed.ok \/ ~d.ok THEN [act |-> "caught", data |-> Undef]
       ELSE IF d.type = JsStr(S_state) THEN [act |-> "state", data |-> d.data]
       ELSE IF d.type = JsStr(S_ready) THEN [act |-> "ready", data |-> Undef]
       ELSE [act |-> "none", data |-> Undef]

\* A line arrives on connection c.
Inbound(c, msg) ==
    /\ supervisor = "running"
    /\ conn[c].srv # 0
    /\ conn[c].open
    /\ lastOp' = [Op("line") EXCEPT !.line = msg]
    /\ LET h == HandleLine(msg)
       IN CASE h.act = "state" ->
                  /\ emitted' = << ResourcesStateEvent(h.data) >>
                  /\ UNCHANGED state
            [] h.act = "ready" ->
                  /\ state' = toState("up").state
                  /\ emitted' = toState("up").emitted
            [] OTHER ->
                  /\ emitted' = <<>>
                  /\ UNCHANGED state
    /\ sendCalls' = <<>> /\ written' = <<>> /\ fired' = <<>> /\ raised' = "no"
    /\ UNCHANGED <<wired, server, ipcServer, ipcSocket, currentEnabledResourcesPaths,
                   proc, ipc, conn, links, startCall, supervisor>>

\* ipcServer.on('close'): the server s, closed by the exit handler, has no
\* connection left.
IpcServerClose(s) ==
    /\ supervisor = "running"
    /\ ipc[s].status = "closing"
    /\ \A c \in Conns : conn[c].srv = s => ~conn[c].open
    /\ ipcServer' = 0
    /\ ipcSocket' = NoSocket
    /\ ipc' = [ipc EXCEPT ![s] = [status |-> "closed", disposable |-> <<>>]]
    /\ lastOp' = Op("ipcClose")
    /\ Quiet
    /\ UNCHANGED <<wired, state, server, currentEnabledResourcesPaths, proc, conn, links,
                   startCall, supervisor>>

--------------------------------------------------------------------------

Init ==
    /\ state = "down"
    /\ server = NoProc
    /\ ipcServer = 0
    /\ ipcSocket = NoSocket
    /\ currentEnabledResourcesPaths = <<>>
    /\ proc = [p \in Procs |-> "none"]
    /\ ipc = [s \in Procs |-> [status |-> "none", disposable |-> <<>>]]
    /\ conn = [c \in Conns |-> [srv |-> 0, open |-> FALSE]]
    /\ links = {}
    /\ startCall = [pc |-> "idle", req |-> <<>>]
    /\ supervisor = "running"
    /\ lastOp = Op("init")
    /\ emitted = <<>>
    /\ sendCalls = <<>>
    /\ written = <<>>
    /\ fired = <<>>
    /\ raised = "no"
    /\ wired = {}

\* The whole supervisor: every handler in every order, the requests of one
\* project whose enabled resources are /p/a and /p/b.
ProjectLists == { <<PA, PB>> }
ProjectPrefixes == { <<>>, <<"/","p","/","a">> }

Next ==
    \/ AckState
    \/ Stop
    \/ \E r \in ProjectLists : StartBegin(r)
    \/ /\ startCall.pc = "linking"
       /\ \E spawned \in BOOLEAN, lr \in PlainLinkResults(links, startCall.req) :
             StartComplete(lr, spawned)
    \/ \E p \in Procs : ProcessExit(p)
    \/ SupervisorExit
    \/ \E r \in ProjectLists : \E lr \in PlainLinkResults(links, r) :
          RefreshResources(r, lr)
    \/ \E r \in ProjectLists, pre \in ProjectPrefixes :
          \E lr \in PlainLinkResults(links, r) : HandleRelinkResources(r, pre, lr)
    \/ \E ev \in ClientEvents, n \in ResourceNames : ClientEvent(ev, n)
    \/ \E n \in ResourceNames : HandleResourceRestart(n)
    \/ \E s \in Procs : Connection(s)
    \/ \E c \in Conns : PeerClose(c)
    \/ \E c \in Conns, l \in Lines : Inbound(c, l)
    \/ \E s \in Procs : IpcServerClose(s)

Spec == Init /\ [][Next]_vars

\* The resource handlers on their own: start, refreshResources and relink
\* requests over every resource list and prefix, every outcome of linking, and
\* of the rest only what brings the server up and down with a peer connected.
NextResources ==
    \/ \E r \in ResourceLists : StartBegin(r)
    \/ /\ startCall.pc = "linking"
       /\ \E spawned \in BOOLEAN, lr \in LinkResults(links, startCall.req) :
             StartComplete(lr, spawned)
    \/ \E p \in Procs : ProcessExit(p)
    \/ \E r \in ResourceLists : \E lr \in LinkResults(links, r) :
          RefreshResources(r, lr)
    \/ \E r \in ResourceLists, pre \in Prefixes :
          \E lr \in LinkResults(links, r) : HandleRelinkResources(r, pre, lr)
    \/ \E s \in Procs : Connection(s)
    \/ \E c \in Conns : Inbound(c, LineReady)

SpecResources == Init /\ [][NextResources]_vars

\* What the event loop and the operating system guarantee: a process that was
\* sent SIGKILL ends and its 'exit' is reported; the promises start() awaits
\* settle; a server that was closed emits 'close' once its connections ended.
\* Requests, lines and connections of the peer, and the end of a process that
\* nobody killed, may or may not come.
KilledProcessExits == \E p \in Procs : proc[p] = "killed" /\ ProcessExit(p)

AwaitsSettle ==
    /\ startCall.pc = "linking"
    /\ \E spawned \in BOOLEAN, lr \in PlainLinkResults(links, startCall.req) :
          StartComplete(lr, spawned)

ServerCloses == \E s \in Procs : IpcServerClose(s)

Fairness ==
    /\ WF_vars(KilledProcessExits)
    /\ WF_vars(AwaitsSettle)
    /\ WF_vars(ServerCloses)

SpecLive == Init /\ [][Next]_vars /\ Fairness

--------------------------------------------------------------------------
\* Properties.

Running == supervisor = "running"
Alive(p) == proc[p] \in {"running", "killed"}
SomeProcessAlive == \E p \in Procs : Alive(p)

\* The state broadcasts among the events of the last handler.
RECURSIVE StateBroadcasts(_)
StateBroadcasts(events) ==
    IF events = <<>> THEN <<>>
    ELSE (IF Head(events).ev = "state" THEN <<Head(events).st>> ELSE <<>>)
         \o StateBroadcasts(Tail(events))

\* A step in which toState ran: a handler other than ackState broadcast the state.
ToStateStep ==
    /\ lastOp'.op # "ackState"
    /\ StateBroadcasts(emitted') # <<>>

\* start() called again after a launch that failed: no process was launched,
\* the state is still booting.
RetryAfterFailedLaunch ==
    /\ lastOp'.op = "start"
    /\ state = "booting"
    /\ ~SomeProcessAlive

\* C1: every change of the lifecycle state made between a start() call and the
\* exit of the process it launched is one of down->booting, booting->up,
\* up->down, booting->down; there is no down->up, up->booting or up->up, and no
\* change to up once the process has exited. (The retry of a start whose launch
\* failed launched no process and is not counted.)
C1_OnlyTableTransitions ==
    [][ (ToStateStep /\ ~RetryAfterFailedLaunch)
            => <<state, state'>> \in { <<"down", "booting">>, <<"booting", "up">>,
                                       <<"up", "down">>, <<"booting", "down">> } ]_vars

\* C2: with no start() call in flight the state tracks the real process: it is
\* not down while a launched process is alive, and it is not up when none is.
\* (booting with no process alive, which a failed launch leaves, is let pass.)
C2_StateTracksProcess ==
    (Running /\ startCall.pc = "idle")
        => /\ SomeProcessAlive => state # "down"
           /\ ~SomeProcessAlive => state # "up"

\* C3: a control-surface event runs no forwarding handler that was registered
\* for a connection that has closed.
C3_NoHandlerOfClosedConnection ==
    \A i \in 1..Len(fired) : conn[fired[i]].open

\* C4: the peer reference is null or refers to a connection that is open.
C4_PeerReferenceIsOpen ==
    Running => (ipcSocket # NoSocket => conn[ipcSocket].open)


\* What the peer reads from one written message: the line without its newline,
\* parsed. undefined travels as null.
OnTheWire(call) == << JsStr(call.type), IF call.data = Undef THEN JsNull ELSE call.data >>

IsMessageOf(msg, call) ==
    /\ Len(msg) >= 2
    /\ msg[Len(msg)] = Newline
    /\ LET parsed == JSONparse(SubSeq(msg, 1, Len(msg) - 1))
       IN parsed.ok /\ parsed.val = JsArr(OnTheWire(call))

\* The handlers that do nothing but send.
SendOnlyOps == ClientEvents \cup {"systemRestartResource"}

\* C5: a send never throws; with no peer reference it writes nothing, with one
\* it writes exactly one message [type, payload] per send, to that peer; a
\* handler that only sends leaves the state, the process handle, the peer
\* reference and the enabled-resource record as they were.
C5_Send ==
    [][ /\ raised' # "send"
        /\ IF ipcSocket = NoSocket
           THEN written' = <<>>
           ELSE /\ Len(written') = Len(sendCalls')
                /\ \A i \in 1..Len(written') :
                      /\ written'[i].to = ipcSocket
                      /\ IsMessageOf(written'[i].msg, sendCalls'[i])
        /\ lastOp'.op \in SendOnlyOps
              => UNCHANGED <<state, server, ipcSocket, currentEnabledResourcesPaths>>
      ]_vars

\* A restart request handled with no peer connected: one send, nothing written.
C5_Witness ==
    /\ lastOp.op = "systemRestartResource"
    /\ ipcSocket = NoSocket
    /\ Len(sendCalls) = 1
    /\ written = <<>>
    /\ raised = "no"

\* C6: after a refreshResources call that succeeded, the record equals the
\* resource list that call was given. (A refresh made before any start has
\* recorded a list is let pass.)
C6_RecordIsLastLinked ==
    (lastOp.op = "refreshResources" /\ raised = "no"
        /\ currentEnabledResourcesPaths # <<>>)
        => currentEnabledResourcesPaths = lastOp.paths

\* str begins with pre, character by character.
HasPrefix(str, pre) ==
    /\ Len(pre) <= Len(str)
    /\ \A k \in 1..Len(pre) : str[k] = pre[k]

\* The entries of the record that a relink request with this prefix restarts.
Matching(prefix) ==
    Ascending({ i \in 1..Len(currentEnabledResourcesPaths) :
                  prefix # <<>> /\ HasPrefix(currentEnabledResourcesPaths[i], prefix) })

DesiredPairs(resourcesPaths) ==
    { <<DesiredLinks(resourcesPaths)[i].dest, DesiredLinks(resourcesPaths)[i].source>> :
        i \in 1..(Len(resourcesPaths) + 1) }

\* C7: a relink request handled while the state is up, once linking is done,
\* sends refresh and then one restart per recorded resource whose path starts
\* with the prefix, by basename and in the record's order: none for a resource
\* outside the prefix, none at all without a prefix. Every link it leaves is
\* one of the request's; with a peer reference every send is written.
C7_RelinkRestarts ==
    (Running /\ lastOp.op = "relinkResources" /\ state = "up")
        => IF raised = "link" THEN sendCalls = <<>>
           ELSE LET m == Matching(lastOp.prefix)
                IN /\ Len(sendCalls) = 1 + Len(m)
                   /\ sendCalls[1] = Call(S_refresh, Undef)
                   /\ \A k \in 1..Len(m) :
                         sendCalls[k + 1] =
                            Call(S_restart,
                                 JsStr(basename(currentEnabledResourcesPaths[m[k]])))
                   /\ links \subseteq DesiredPairs(lastOp.paths)
                   /\ ipcSocket # NoSocket => Len(written) = Len(sendCalls)

\* /p/a and /p/b are recorded; a relink with prefix /p/a has restarted a alone,
\* and /p/b is linked again.
C7_Witness ==
    /\ lastOp.op = "relinkResources"
    /\ state = "up"
    /\ lastOp.prefix = <<"/","p","/","a">>
    /\ currentEnabledResourcesPaths = <<PA, PB>>
    /\ sendCalls = << Call(S_refresh, Undef), Call(S_restart, JsStr(<<"a">>)) >>
    /\ Len(written) = 2
    /\ <<<<"b">>, PB>> \in links

\* C8: a relink request handled while the state is down or booting changes
\* neither the links nor the state, the process handle or the record, and
\* sends nothing.
C8_RelinkWhenNotUp ==
    [][ (lastOp'.op = "relinkResources" /\ state # "up")
            => /\ UNCHANGED <<links, state, server, currentEnabledResourcesPaths>>
               /\ sendCalls' = <<>>
               /\ written' = <<>>
      ]_vars

\* A relink request dropped while booting, with a peer connected and links that
\* differ from the ones it asks for.
C8_Witness ==
    /\ lastOp.op = "relinkResources"
    /\ state = "booting"
    /\ ipcSocket # NoSocket
    /\ conn[ipcSocket].open
    /\ links # {}
    /\ ~(DesiredPairs(lastOp.paths) \subseteq links)
    /\ sendCalls = <<>>

\* C9: a step that changes the state broadcasts the new state exactly once; no
\* step broadcasts a state other than the one it leaves, or more than once; a
\* `ready` line while booting leaves up with one broadcast; ackState answers
\* with the current state, once, and leaves it.
C9_Broadcast ==
    [][ /\ state' # state => StateBroadcasts(emitted') = <<state'>>
        /\ StateBroadcasts(emitted') \in {<<>>, <<state'>>}
        /\ (lastOp'.op = "line" /\ lastOp'.line = LineReady /\ state = "booting")
              => (state' = "up" /\ StateBroadcasts(emitted') = <<"up">>)
        /\ lastOp'.op = "ackState"
              => (state' = state /\ StateBroadcasts(emitted') = <<state>>)
      ]_vars

\* ready has arrived: the state is up and was broadcast once.
C9_Witness ==
    /\ lastOp.op = "line"
    /\ lastOp.line = LineReady
    /\ state = "up"
    /\ emitted = << StateEvent("up") >>

\* C10: a line that is not a JSON array of two elements changes neither the
\* state nor the peer reference, the handlers or the connection, and emits
\* nothing.
C10_MalformedDropped ==
    [][ (lastOp'.op = "line" /\ ~WellFormed(lastOp'.line))
            => /\ UNCHANGED <<state, ipcSocket, ipc, conn>>
               /\ emitted' = <<>>
      ]_vars

\* C11: once stop() has run, in whatever state, the state becomes down (or the
\* supervisor itself ends), given that a killed process reports its exit.
C11_StopLeadsToDown ==
    (Running /\ lastOp.op = "stop") ~> (state = "down" \/ ~Running)

\* C12: stop() while the state is down and no process is tracked raises
\* nothing, emits nothing, sends nothing, kills nothing, and leaves the state,
\* the process handle, the peer reference and the record as they were.
C12_StopWhenDown ==
    [][ (lastOp'.op = "stop" /\ state = "down" /\ server = NoProc)
            => /\ raised' = "no"
               /\ emitted' = <<>>
               /\ sendCalls' = <<>>
               /\ written' = <<>>
               /\ UNCHANGED <<state, server, ipcSocket, currentEnabledResourcesPaths,
                              proc, ipc>>
      ]_vars

\* stop() has run after the server went down: the process of an earlier start
\* has exited, nothing is tracked.
C12_Witness ==
    /\ lastOp.op = "stop"
    /\ state = "down"
    /\ server = NoProc
    /\ raised = "no"
    /\ \E p \in Procs : proc[p] = "exited"

\* C13: the step of start() in which the launch fails leaves the state (booting
\* when nothing else changed it), the process handle, the IPC server, the
\* listeners and the record as they were, launches and broadcasts nothing,
\* does not reject, and leaves no call in flight, so that start() is accepted
\* again.
C13_LaunchFailure ==
    [][ (lastOp'.op = "startComplete" /\ lastOp'.launch = "failed")
            => /\ UNCHANGED <<state, server, ipcServer, ipc, proc, wired,
                              currentEnabledResourcesPaths, supervisor>>
               /\ StateBroadcasts(emitted') = <<>>
               /\ raised' = "no"
               /\ startCall'.pc = "idle"
      ]_vars

\* The first launch has failed: booting, no handle, no IPC server, no process,
\* nothing recorded, and start() may be called again.
C13_Witness ==
    /\ lastOp.op = "startComplete"
    /\ lastOp.launch = "failed"
    /\ state = "booting"
    /\ server = NoProc
    /\ ipcServer = 0
    /\ wired = {}
    /\ \A p \in Procs : proc[p] = "none"
    /\ currentEnabledResourcesPaths = <<>>
    /\ ENABLED (\E r \in ProjectLists : StartBegin(r))

\* C14: once the supervisor's process has ended, no process it launched is
\* left running: each was killed by the exit hook or had ended before.
C14_NoProcessOutlivesSupervisor ==
    supervisor = "exited" => \A p \in Procs : proc[p] # "running"

\* A step in which linkResources ran: in start, in refreshResources, or in a
\* relink request that went past its first check.
LinkingStep ==
    \/ lastOp'.op \in {"refreshResources", "startComplete"}
    \/ lastOp'.op = "relinkResources" /\ state = "up"

\* The links whose failure was logged.
FailedLinks(log) == { e.link : e \in log }

\* C15: when linkResources gets past the directory steps, every desired link
\* whose creation did not fail exists afterwards, the bridge link included,
\* whichever links failed; the call does not raise, and refresh is the first
\* directive sent, written to the peer if there is one. When a directory step
\* fails, the call raises, no link is created, no failure is logged and
\* nothing is sent.
C15_LinksIndependent ==
    [][ LinkingStep
            => IF raised' = "link"
               THEN /\ sendCalls' = <<>>
                    /\ written' = <<>>
                    /\ lastOp'.failed = {}
                    /\ links' \in {links, {}}
               ELSE /\ links' =
                         { <<DesiredLinks(lastOp'.paths)[i].dest,
                             DesiredLinks(lastOp'.paths)[i].source>> :
                             i \in (1..(Len(lastOp'.paths) + 1))
                                      \ FailedLinks(lastOp'.failed) }
                    /\ Len(sendCalls') >= 1
                    /\ sendCalls'[1] = Call(S_refresh, Undef)
                    /\ ipcSocket # NoSocket
                          => /\ Len(written') = Len(sendCalls')
                             /\ IsMessageOf(written'[1].msg, Call(S_refresh, Undef))
      ]_vars

\* The file system refused the link of /p/a during a refresh with a peer
\* connected: the bridge and /p/b are linked, and both refresh directives of
\* the call were written.
C15_Witness ==
    /\ lastOp.op = "refreshResources"
    /\ lastOp.paths = <<PA, PB>>
    /\ lastOp.failed = { [link |-> 2, error |-> "refused"] }
    /\ links = { <<S_sdkGame, sdkGamePath>>, <<<<"b">>, PB>> }
    /\ raised = "no"
    /\ ipcSocket # NoSocket
    /\ Len(written) = 2

\* No link failed for a reason of the file system's own.
NoRefusal(log) == \A e \in log : e.error # "refused"

\* C16: a refreshResources call that follows one with the same resource list,
\* the file system refusing nothing in either, leaves the links the first one
\* left: one link per desired name, each a desired one, none left over.
C16_LinkerIdempotent ==
    [][ ( /\ lastOp.op = "refreshResources" /\ raised = "no"
          /\ lastOp'.op = "refreshResources" /\ raised' = "no"
          /\ lastOp'.paths = lastOp.paths
          /\ NoRefusal(lastOp.failed) /\ NoRefusal(lastOp'.failed) )
            => /\ links' = links
               /\ links' \subseteq DesiredPairs(lastOp'.paths)
               /\ { l[1] : l \in links' } = { l[1] : l \in DesiredPairs(lastOp'.paths) }
               /\ \A l1, l2 \in links' : l1[1] = l2[1] => l1 = l2
      ]_vars

\* C17: in a start or refreshResources call nothing is sent when ensuring the
\* directory or linking failed; a refreshResources call that linked writes its
\* two refresh directives to the connected peer; and start registers the
\* listeners of a process only with the IPC server of that call listening.
C17_CallOrdering ==
    [][ /\ (lastOp'.op \in {"refreshResources", "startComplete"} /\ raised' = "link")
              => (sendCalls' = <<>> /\ written' = <<>>)
        /\ (lastOp'.op = "refreshResources" /\ raised' = "no" /\ ipcSocket # NoSocket)
              => /\ Len(written') = 2
                 /\ \A i \in 1..2 :
                       IsMessageOf(written'[i].msg, Call(S_refresh, Undef))
        /\ \A p \in wired' \ wired : ipc'[p].status = "listening"
      ]_vars

\* C18: at most one launched process is alive; with no start() call in flight
\* the process handle is set exactly when one is alive, and refers to it.
C18_ZeroOrOneProcess ==
    /\ Cardinality({ p \in Procs : Alive(p) }) <= 1
    /\ (Running /\ startCall.pc = "idle")
          => /\ server # NoProc <=> SomeProcessAlive
             /\ server # NoProc => Alive(server)

\* C19: the state is up only while a process is tracked.
C19_UpImpliesHandle ==
    state = "up" => server # NoProc

\* The messages the last handler wrote that are the directive of this call.
WritesOf(call) == { i \in 1..Len(written) : IsMessageOf(written[i].msg, call) }

\* C20: a restartResource command of the control surface writes at most one
\* restart directive for its resource to the peer.
C20_OneRestartPerCommand ==
    lastOp.op = "restartResource"
        => Cardinality(WritesOf(Call(S_restart, lastOp.data))) <= 1

=============================================================================
